---- MODULE Spec2Model ----
(***************************************************************************)
(* Model of the deserializer and the hierarchy assembler of EQidle          *)
(* (src/eq_ui_parser.py: parse_eq_ui_xml, parse_element_properties,        *)
(* assemble_ui_hierarchy) over the element classes of src/eq_ui_model.py.  *)
(*                                                                         *)
(* A Python string is the sequence of its characters.  A Python value that *)
(* may be a string, None or a missing attribute is a tagged record, so     *)
(* that hasattr, truthiness and AttributeError are all visible.  Objects   *)
(* live in a heap (objs) and lists hold object identities, because the     *)
(* assembler mutates the elements it was given in place and the same       *)
(* object may sit in several lists.                                        *)
(***************************************************************************)
EXTENDS Integers, Sequences, FiniteSets, TLC

(***************************************************************************)
(* Bounds of the explored inputs.                                          *)
(***************************************************************************)
\* top-level elements of a reference-rich document
MaxElems == 3
\* reference strings in a reference-rich document (all containers together)
MaxRefs == 3
\* top-level elements of a variant-rich document
MaxVariantElems == 2
\* reference strings in a variant-rich document
MaxVariantRefs == 1
\* inline (already resolved) children in a variant-rich document
MaxInline == 1
\* top-level elements of a document with nested containers
MaxNestedElems == 2
\* reference strings of the top-level elements of such a document
MaxNestedRefs == 2
\* top-level nodes of an XML document of plain elements
MaxTopNodes == 3
\* ScreenID child nodes of an element node
MaxScreenIdNodes == 2
\* child nodes of an element node with numeric fields
MaxNumberNodes == 2
\* sub-nodes of a composite node
MaxSubNodes == 2
\* top-level container nodes of an XML document with Pieces nodes
MaxContainerNodes == 2
\* Pieces nodes of a container node
MaxPiecesNodes == 2

(***************************************************************************)
(* Strings.                                                                *)
(***************************************************************************)
Colon == ":"

S_InventoryWindow ==
    <<"I", "n", "v", "e", "n", "t", "o", "r", "y", "W", "i", "n", "d", "o", "w">>
S_IW_Prefix == <<"I", "W", "_">>
S_Window == <<"W", "i", "n", "d", "o", "w">>
S_Underscore == <<"_">>
S_IW_A == <<"I", "W", "_", "A">>
S_Inventory_A == <<"I", "n", "v", "e", "n", "t", "o", "r", "y", "_", "A">>
S_A_B == <<"A", ":", "B">>
S_Button == <<"B", "u", "t", "t", "o", "n">>
S_Empty == <<>>

\* "tag:rest"
Tagged(tag, rest) == tag \o <<Colon>> \o rest

\* c in s
Contains(s, c) == \E i \in 1..Len(s) : s[i] = c

\* s.startswith(p)
StartsWith(s, p) == Len(p) <= Len(s) /\ SubSeq(s, 1, Len(p)) = p

\* s.endswith(p)
EndsWith(s, p) == Len(p) <= Len(s) /\ SubSeq(s, Len(s) - Len(p) + 1, Len(s)) = p

\* index of the first c in s, or Len(s) + 1
RECURSIVE FirstIndex(_, _, _)
FirstIndex(s, c, i) ==
    IF i > Len(s) THEN Len(s) + 1
    ELSE IF s[i] = c THEN i
    ELSE FirstIndex(s, c, i + 1)

\* s.split(":")
RECURSIVE Split(_)
Split(s) ==
    LET i == FirstIndex(s, Colon, 1)
    IN  IF i > Len(s) THEN <<s>>
        ELSE <<SubSeq(s, 1, i - 1)>> \o Split(SubSeq(s, i + 1, Len(s)))

(***************************************************************************)
(* Python values: a string, None, or an attribute that was never set.      *)
(***************************************************************************)
PyStr(s) == [t |-> "str", s |-> s]
PyNone == [t |-> "none", s |-> <<>>]
Absent == [t |-> "absent", s |-> <<>>]

\* bool(v) for a string or None
Truthy(v) == v.t = "str" /\ Len(v.s) > 0

\* a list attribute: present with a value, or never set
ListAttr(v) == [has |-> TRUE, v |-> v]
NoListAttr == [has |-> FALSE, v |-> <<>>]

\* an entry of a pieces/pages list: a raw reference string or an object
RefItem(s) == [ref |-> s]
ObjItem(o) == [obj |-> o]
IsRefItem(it) == "ref" \in DOMAIN it
IsObjItem(it) == "obj" \in DOMAIN it

(***************************************************************************)
(* Element classes.  Window and Button are EQWindow and EQButton of        *)
(* src/eq_ui_model.py (Button stands for every class without a pieces      *)
(* list: EQButton, EQLabel, EQGauge, EQStaticText).  Page and TabBox are   *)
(* EQPage and EQTabBox, which the parser names but the model file does not *)
(* define.                                                                 *)
(***************************************************************************)
Kinds == {"Window", "Button", "Page", "TabBox"}

\* isinstance(element, EQWindow)
IsEQWindow(cls) == cls = "Window"

\* isinstance(element, (EQWindow, EQPage, EQTabBox, EQTilesLayoutBox, EQVerticalLayoutBox))
IsContainerClass(cls) == cls \in {"Window", "Page", "TabBox"}

\* EQPage holds its children in pieces (a container variant of the data model
\* whose class is not defined in eq_ui_model.py)
PageHoldsPieces(cls) == cls = "Page"

\* the class sets self.pieces in its constructor
HasPiecesAttr(cls) == cls = "Window" \/ PageHoldsPieces(cls)

\* EQTabBox holds its children in pages (likewise not defined in eq_ui_model.py)
HasPagesAttr(cls) == cls = "TabBox"

\* EQPage starts with an empty list of pending piece references, the list the
\* deserializer records reference strings in (EQWindow has no such attribute)
HasRawPiecesAttr(cls) == PageHoldsPieces(cls)

\* EQTabBox starts with an empty list of pending page references
HasRawPagesAttr(cls) == HasPagesAttr(cls)

\* EQPoint(): the default location
DefaultPoint == [x |-> 0, y |-> 0]

\* EQRGB(r=255, g=255, b=255): the default text colour (alpha defaults to 255)
DefaultTextColor == [r |-> 255, g |-> 255, b |-> 255, alpha |-> 255]

\* the default font
DefaultFont == 3

\* a freshly constructed element: no parent_id; raw_*_references only where
\* the class sets them
NewElement(cls, screen_id, children) ==
    [cls |-> cls,
     screen_id |-> screen_id,
     item |-> PyNone,
     text |-> PyNone,
     font |-> DefaultFont,
     location |-> DefaultPoint,
     text_color |-> DefaultTextColor,
     pieces |-> IF HasPiecesAttr(cls) THEN ListAttr(children) ELSE NoListAttr,
     pages |-> IF HasPagesAttr(cls) THEN ListAttr(children) ELSE NoListAttr,
     raw_pieces_references |-> IF HasRawPiecesAttr(cls) THEN ListAttr(<<>>) ELSE NoListAttr,
     raw_pages_references |-> IF HasRawPagesAttr(cls) THEN ListAttr(<<>>) ELSE NoListAttr,
     parent_id |-> Absent]

(***************************************************************************)
(* Python dicts keep insertion order; assigning to an existing key keeps   *)
(* the key's position and replaces the value.  A dict is the sequence of   *)
(* its items.                                                              *)
(***************************************************************************)
NoObj == 0

DictKeys(d) == {d[i].k : i \in 1..Len(d)}

\* d.get(k), NoObj standing for None
DictGet(d, k) ==
    IF k \in DictKeys(d)
    THEN d[CHOOSE i \in 1..Len(d) : d[i].k = k].v
    ELSE NoObj

\* d[k] = v
DictPut(d, k, v) ==
    IF k \in DictKeys(d)
    THEN [i \in 1..Len(d) |-> IF d[i].k = k THEN [k |-> k, v |-> v] ELSE d[i]]
    ELSE Append(d, [k |-> k, v |-> v])

(***************************************************************************)
(* Input documents.  A document lists, per top-level element, its class,   *)
(* its ScreenID, and how many reference strings or inline children it      *)
(* holds; the reference strings and the inline children of all elements    *)
(* follow in document order.  An inline child is a class, a ScreenID and   *)
(* the reference strings it holds itself.                                  *)
(* A profile names the pools and bounds a family of documents is drawn     *)
(* from.                                                                   *)
(***************************************************************************)
RECURSIVE SumTo(_, _)
SumTo(f, i) == IF i <= 0 THEN 0 ELSE SumTo(f, i - 1) + f[i]

\* only a class with a pieces or pages list holds children, and an element
\* holds reference strings or inline children, not both
WellFormed(pf, n, cls, nrefs, ninl) ==
    /\ SumTo(nrefs, n) <= pf.r
    /\ SumTo(ninl, n) <= pf.k
    /\ \A i \in 1..n :
        /\ nrefs[i] + ninl[i] > 0 => HasPiecesAttr(cls[i]) \/ HasPagesAttr(cls[i])
        /\ nrefs[i] = 0 \/ ninl[i] = 0

\* documents with many references among plainly named windows and buttons
PlainProfile ==
    [kinds |-> {"Window", "Button"},
     ids |-> {PyStr(S_InventoryWindow), PyStr(S_IW_A), PyStr(S_Inventory_A)},
     refs |-> {S_InventoryWindow, S_IW_A, S_Inventory_A},
     inline |-> {},
     n |-> MaxElems, r |-> MaxRefs, k |-> 0]

\* documents with every class, missing and colon-carrying ScreenIDs, tagged
\* references and inline children
VariantProfile ==
    [kinds |-> Kinds,
     ids |-> {PyNone, PyStr(S_InventoryWindow), PyStr(S_IW_A), PyStr(S_A_B)},
     refs |-> {S_IW_A, Tagged(S_Button, S_IW_A), S_A_B, Tagged(S_Button, S_A_B)},
     inline |-> {[cls |-> "Button", screen_id |-> PyStr(S_IW_A), refs |-> <<>>],
                 [cls |-> "Button", screen_id |-> PyNone, refs |-> <<>>]},
     n |-> MaxVariantElems, r |-> MaxVariantRefs, k |-> MaxInline]

\* documents of windows one of which holds, as an inline child, a window
\* with a reference string of its own
NestedProfile ==
    [kinds |-> {"Window"},
     ids |-> {PyStr(S_InventoryWindow), PyStr(S_IW_A)},
     refs |-> {S_InventoryWindow, S_IW_A},
     inline |-> {[cls |-> "Window", screen_id |-> PyNone, refs |-> <<S_IW_A>>],
                 [cls |-> "Window", screen_id |-> PyStr(S_Inventory_A), refs |-> <<S_IW_A>>]},
     n |-> MaxNestedElems, r |-> MaxNestedRefs, k |-> MaxInline]

Profiles == {PlainProfile, VariantProfile, NestedProfile}

(***************************************************************************)
(* Loading a document into the heap: top-level element i is object i, the  *)
(* inline children are the objects after them, in document order.          *)
(***************************************************************************)
RefItems(refs) == [j \in 1..Len(refs) |-> RefItem(refs[j])]

Load(n, cls, sid, nrefs, refs, ninl, inl) ==
    LET top(i) ==
            NewElement(cls[i], sid[i],
                IF ninl[i] > 0
                THEN [j \in 1..ninl[i] |-> ObjItem(n + SumTo(ninl, i - 1) + j)]
                ELSE RefItems(SubSeq(refs, SumTo(nrefs, i - 1) + 1, SumTo(nrefs, i))))
        nested(j) == NewElement(inl[j].cls, inl[j].screen_id, RefItems(inl[j].refs))
    IN  [o \in 1..(n + Len(inl)) |-> IF o <= n THEN top(o) ELSE nested(o - n)]

(***************************************************************************)
(* State.  objs is the heap; parsed_elements the list handed to            *)
(* assemble_ui_hierarchy; the three results are its locals.  pc is the     *)
(* step about to run ("parse" for parse_eq_ui_xml, then the four passes),  *)
(* "done" after the return statement of assemble_ui_hierarchy, "error"     *)
(* when an exception left it; raised names that exception.  document is    *)
(* the file handed to parse_eq_ui_xml and parse_result the value it        *)
(* returned.  run counts the calls of assemble_ui_hierarchy on the list,   *)
(* and first_run keeps what the first call left behind.                    *)
(***************************************************************************)
VARIABLES objs, parsed_elements, windows_by_id, all_elements_by_id,
          unassigned_elements, pc, raised, document, parse_result,
          run, first_run

vars == <<objs, parsed_elements, windows_by_id, all_elements_by_id,
          unassigned_elements, pc, raised, document, parse_result,
          run, first_run>>

\* the variables of the deserializer, and those that count the calls
parse_vars == <<document, parse_result>>
run_vars == <<run, first_run>>

\* no file was read: the list was built by the caller
NoDocument == [status |-> "none"]
NoResult == [t |-> "none"]
NoRun == [done |-> FALSE]

Init ==
    \E pf \in Profiles :
    \E n \in 0..pf.n :
    \E cls \in [1..n -> pf.kinds] :
    \E sid \in [1..n -> pf.ids] :
    \E nrefs \in [1..n -> 0..pf.r] :
    \E ninl \in [1..n -> 0..pf.k] :
        /\ WellFormed(pf, n, cls, nrefs, ninl)
        /\ \E refs \in [1..SumTo(nrefs, n) -> pf.refs] :
           \E inl \in [1..SumTo(ninl, n) -> pf.inline] :
               objs = Load(n, cls, sid, nrefs, refs, ninl, inl)
        /\ parsed_elements = [i \in 1..n |-> i]
        /\ windows_by_id = <<>>
        /\ all_elements_by_id = <<>>
        /\ unassigned_elements = <<>>
        /\ pc = "first"
        /\ raised = "none"
        /\ document = NoDocument
        /\ parse_result = NoResult
        /\ run = 1
        /\ first_run = NoRun

(***************************************************************************)
(* First pass: index the top-level elements and move string references     *)
(* out of pieces/pages.                                                    *)
(***************************************************************************)
\* all(isinstance(p, str) for p in lst)
AllStr(lst) == \A i \in 1..Len(lst) : IsRefItem(lst[i])

\* list(lst) for a list of strings
RawCopy(lst) == [i \in 1..Len(lst) |-> lst[i].ref]

\* all_elements_by_id after the element o was seen
IndexAll(all, h, o) ==
    IF Truthy(h[o].screen_id) THEN DictPut(all, h[o].screen_id.s, o) ELSE all

\* windows_by_id after the element o was seen
IndexWindows(win, h, o) ==
    IF Truthy(h[o].screen_id) /\ IsEQWindow(h[o].cls)
    THEN DictPut(win, h[o].screen_id.s, o)
    ELSE win

\* the element o after the reset of its pieces and pages
ResetReferences(e) ==
    LET e1 == IF e.pieces.has /\ AllStr(e.pieces.v)
              THEN [e EXCEPT !.raw_pieces_references = ListAttr(RawCopy(e.pieces.v)),
                             !.pieces = ListAttr(<<>>)]
              ELSE e
    IN  IF e1.pages.has /\ AllStr(e1.pages.v)
        THEN [e1 EXCEPT !.raw_pages_references = ListAttr(RawCopy(e1.pages.v)),
                        !.pages = ListAttr(<<>>)]
        ELSE e1

\* the loop of the first pass from position i on
RECURSIVE FirstPassFrom(_, _)
FirstPassFrom(st, i) ==
    IF i > Len(parsed_elements) THEN st
    ELSE LET o == parsed_elements[i]
         IN  FirstPassFrom(
                 [h |-> [st.h EXCEPT ![o] = ResetReferences(st.h[o])],
                  all |-> IndexAll(st.all, st.h, o),
                  win |-> IndexWindows(st.win, st.h, o)],
                 i + 1)

FirstPass ==
    /\ pc = "first"
    /\ LET st == FirstPassFrom([h |-> objs, all |-> <<>>, win |-> <<>>], 1)
       IN  /\ objs' = st.h
           /\ all_elements_by_id' = st.all
           /\ windows_by_id' = st.win
    /\ pc' = "second"
    /\ UNCHANGED <<parsed_elements, unassigned_elements, raised, parse_vars, run_vars>>

(***************************************************************************)
(* Second pass: resolve the reference strings of every indexed element.    *)
(* raw_pieces_references exists only where the first pass set it, and it   *)
(* does so only on an element with a pieces list (likewise for pages), so  *)
(* the appends below cannot raise.                                         *)
(***************************************************************************)
\* the key looked up for a reference string
RefId(ref_str) ==
    IF Contains(ref_str, Colon) THEN Split(ref_str)[2] ELSE ref_str

\* AttachPiece inserting at the front instead of appending
AttachPiece_Prepend(h, holder, child) ==
    [h EXCEPT ![holder].pieces.v = <<ObjItem(child)>> \o @,
              ![child].parent_id = h[holder].screen_id]

\* AttachPiece recording the parent without appending the child
AttachPiece_ParentOnly(h, holder, child) ==
    [h EXCEPT ![child].parent_id = h[holder].screen_id]

\* element_obj.pieces.append(child_obj); child_obj.parent_id = element_obj.screen_id
AttachPiece(h, holder, child) ==
    [h EXCEPT ![holder].pieces.v = Append(@, ObjItem(child)),
              ![child].parent_id = h[holder].screen_id]

\* element_obj.pages.append(child_obj); child_obj.parent_id = element_obj.screen_id
AttachPage(h, holder, child) ==
    [h EXCEPT ![holder].pages.v = Append(@, ObjItem(child)),
              ![child].parent_id = h[holder].screen_id]

\* ResolvePieces leaving the loop at the first reference that is not indexed
RECURSIVE ResolvePieces_StopAtMiss(_, _, _, _, _)
ResolvePieces_StopAtMiss(h, all, holder, refs, i) ==
    IF i > Len(refs) THEN h
    ELSE LET child_obj == DictGet(all, RefId(refs[i]))
         IN  IF child_obj # NoObj
             THEN ResolvePieces_StopAtMiss(AttachPiece(h, holder, child_obj),
                                           all, holder, refs, i + 1)
             ELSE h

\* the loop over raw_pieces_references from position i on
RECURSIVE ResolvePieces(_, _, _, _, _)
ResolvePieces(h, all, holder, refs, i) ==
    IF i > Len(refs) THEN h
    ELSE LET child_obj == DictGet(all, RefId(refs[i]))
         IN  IF child_obj # NoObj
             THEN ResolvePieces(AttachPiece(h, holder, child_obj), all, holder, refs, i + 1)
             ELSE ResolvePieces(h, all, holder, refs, i + 1)

\* the loop over raw_pages_references from position i on
RECURSIVE ResolvePages(_, _, _, _, _)
ResolvePages(h, all, holder, refs, i) ==
    IF i > Len(refs) THEN h
    ELSE LET child_obj == DictGet(all, RefId(refs[i]))
         IN  IF child_obj # NoObj
             THEN ResolvePages(AttachPage(h, holder, child_obj), all, holder, refs, i + 1)
             ELSE ResolvePages(h, all, holder, refs, i + 1)

\* one iteration of the second pass, for the indexed element o
ResolveElement(h, all, o) ==
    LET h1 == IF h[o].raw_pieces_references.has /\ h[o].raw_pieces_references.v # <<>>
              THEN ResolvePieces(h, all, o, h[o].raw_pieces_references.v, 1)
              ELSE h
    IN  IF h1[o].raw_pages_references.has /\ h1[o].raw_pages_references.v # <<>>
        THEN ResolvePages(h1, all, o, h1[o].raw_pages_references.v, 1)
        ELSE h1

\* the loop of the second pass over the items of all_elements_by_id
RECURSIVE SecondPassFrom(_, _, _)
SecondPassFrom(h, all, i) ==
    IF i > Len(all) THEN h
    ELSE SecondPassFrom(ResolveElement(h, all, all[i].v), all, i + 1)

SecondPass ==
    /\ pc = "second"
    /\ objs' = SecondPassFrom(objs, all_elements_by_id, 1)
    /\ pc' = "third"
    /\ UNCHANGED <<parsed_elements, windows_by_id, all_elements_by_id,
                   unassigned_elements, raised, parse_vars, run_vars>>

(***************************************************************************)
(* Third pass: attach parentless "IW_" elements to the InventoryWindow.    *)
(* No class sets parent_id in its constructor, so reading it from an       *)
(* element the second pass did not attach raises AttributeError.           *)
(***************************************************************************)
\* HeuristicCandidate without the test of parent_id
HeuristicCandidate_IgnoreParent(e, element_id) ==
    IF IsContainerClass(e.cls) THEN "no"
    ELSE IF StartsWith(element_id, S_IW_Prefix) THEN "yes"
    ELSE "no"

\* the condition of the third pass on an indexed element: "raise", "yes" or "no"
HeuristicCandidate(e, element_id) ==
    IF IsContainerClass(e.cls) THEN "no"
    ELSE IF e.parent_id = Absent THEN "raise"
    ELSE IF Truthy(e.parent_id) THEN "no"
    ELSE IF StartsWith(element_id, S_IW_Prefix) THEN "yes"
    ELSE "no"

\* hasattr(x, 'screen_id') and x.screen_id == element_id, for a list entry
ScreenIdIs(h, it, element_id) ==
    IsObjItem(it) /\ h[it.obj].screen_id = PyStr(element_id)

\* any(... == element_id for ... in lst)
AnyScreenIdIs(h, lst, element_id) ==
    \E i \in 1..Len(lst) : ScreenIdIs(h, lst[i], element_id)

\* the loop over main_inventory_window.pieces finds element_id
FoundInPieces(h, main, element_id) ==
    /\ h[main].pieces.has
    /\ \E i \in 1..Len(h[main].pieces.v) :
         LET piece == h[main].pieces.v[i]
         IN  \/ ScreenIdIs(h, piece, element_id)
             \/ /\ IsObjItem(piece)
                /\ h[piece.obj].pieces.has
                /\ AnyScreenIdIs(h, h[piece.obj].pieces.v, element_id)
             \/ /\ IsObjItem(piece)
                /\ h[piece.obj].pages.has
                /\ AnyScreenIdIs(h, h[piece.obj].pages.v, element_id)

\* the loop over main_inventory_window.pages from position i on: "found",
\* "not" or "NameError" (the last generator names page_in_page, which is not
\* defined, and fails as soon as it has an entry to test)
RECURSIVE FoundInPages(_, _, _, _)
FoundInPages(h, pages, element_id, i) ==
    IF i > Len(pages) THEN "not"
    ELSE LET page == pages[i]
         IN  IF ~IsObjItem(page) THEN FoundInPages(h, pages, element_id, i + 1)
             ELSE IF h[page.obj].screen_id = PyStr(element_id) THEN "found"
             ELSE IF /\ h[page.obj].pieces.has
                     /\ AnyScreenIdIs(h, h[page.obj].pieces.v, element_id)
                  THEN "found"
             ELSE IF h[page.obj].pages.has /\ h[page.obj].pages.v # <<>>
                  THEN "NameError"
             ELSE FoundInPages(h, pages, element_id, i + 1)

\* is_already_child_of_subcontainer: "found", "not" or "NameError"
AlreadyChild(h, main, element_id) ==
    IF FoundInPieces(h, main, element_id) THEN "found"
    ELSE IF h[main].pages.has THEN FoundInPages(h, h[main].pages.v, element_id, 1)
    ELSE "not"

\* main_inventory_window.pieces.append(element_obj);
\* element_obj.parent_id = main_inventory_window.screen_id
AttachToMain(h, main, o) ==
    [h EXCEPT ![main].pieces.v = Append(@, ObjItem(o)),
              ![o].parent_id = h[main].screen_id]

\* the loop of the third pass over the items of all_elements_by_id
RECURSIVE ThirdPassFrom(_, _, _, _)
ThirdPassFrom(st, all, main, i) ==
    IF i > Len(all) \/ st.raised # "none" THEN st
    ELSE LET o == all[i].v
             c == HeuristicCandidate(st.h[o], all[i].k)
             found == AlreadyChild(st.h, main, all[i].k)
         IN  IF c = "raise"
             THEN [st EXCEPT !.raised = "AttributeError"]
             ELSE IF c = "no"
             THEN ThirdPassFrom(st, all, main, i + 1)
             ELSE IF found = "NameError"
             THEN [st EXCEPT !.raised = "NameError"]
             ELSE IF found = "found"
             THEN ThirdPassFrom(st, all, main, i + 1)
             ELSE ThirdPassFrom([st EXCEPT !.h = AttachToMain(st.h, main, o)],
                                all, main, i + 1)

ThirdPass ==
    /\ pc = "third"
    /\ LET main_inventory_window == DictGet(windows_by_id, S_InventoryWindow)
           st == IF main_inventory_window # NoObj
                 THEN ThirdPassFrom([h |-> objs, raised |-> "none"],
                                    all_elements_by_id, main_inventory_window, 1)
                 ELSE [h |-> objs, raised |-> "none"]
       IN  /\ objs' = st.h
           /\ raised' = st.raised
           /\ pc' = IF st.raised = "none" THEN "fourth" ELSE "error"
    /\ UNCHANGED <<parsed_elements, windows_by_id, all_elements_by_id,
                   unassigned_elements, parse_vars, run_vars>>

(***************************************************************************)
(* Fourth pass: collect the unassigned elements and return.                *)
(***************************************************************************)
\* the condition of the fourth pass on a top-level element: "raise", "yes" or "no"
IsUnassigned(e) ==
    IF e.parent_id = Absent THEN "raise"
    ELSE IF Truthy(e.parent_id) THEN "no"
    ELSE IF ~Truthy(e.screen_id) THEN "no"
    ELSE IF IsContainerClass(e.cls) THEN "no"
    ELSE "yes"

\* the loop of the fourth pass from position i on
RECURSIVE FourthPassFrom(_, _, _)
FourthPassFrom(st, h, i) ==
    IF i > Len(parsed_elements) \/ st.raised # "none" THEN st
    ELSE LET o == parsed_elements[i]
             u == IsUnassigned(h[o])
         IN  IF u = "raise" THEN [st EXCEPT !.raised = "AttributeError"]
             ELSE IF u = "yes"
             THEN FourthPassFrom([st EXCEPT !.un = Append(@, o)], h, i + 1)
             ELSE FourthPassFrom(st, h, i + 1)

FourthPass ==
    /\ pc = "fourth"
    /\ LET st == FourthPassFrom([un |-> <<>>, raised |-> "none"], objs, 1)
       IN  /\ unassigned_elements' = st.un
           /\ raised' = st.raised
           /\ pc' = IF st.raised = "none" THEN "done" ELSE "error"
    /\ UNCHANGED <<objs, parsed_elements, windows_by_id, all_elements_by_id,
                   parse_vars, run_vars>>

(***************************************************************************)
(* The deserializer.  A node of the parsed XML tree is a record of its     *)
(* tag, its attributes in document order (attrib.items()), its direct text *)
(* (None for an element without text) and its child nodes in order.  Tags  *)
(* and attribute names are atoms; attribute values and texts are character *)
(* sequences, because the code strips them and converts them to numbers.   *)
(***************************************************************************)
Node(tag, attrib, text, children) ==
    [tag |-> tag, attrib |-> attrib, text |-> text, children |-> children]

Attr(k, v) == [k |-> k, v |-> v]

\* 'k' in node.attrib
HasXmlAttr(node, k) == \E i \in 1..Len(node.attrib) : node.attrib[i].k = k

\* node.get(k), for an attribute that is there
XmlAttr(node, k) == node.attrib[CHOOSE i \in 1..Len(node.attrib) : node.attrib[i].k = k].v

\* characters str.strip() removes
IsSpace(c) == c \in {" ", "\t", "\n", "\r"}

RECURSIVE LStrip(_)
LStrip(s) == IF s # <<>> /\ IsSpace(Head(s)) THEN LStrip(Tail(s)) ELSE s

RECURSIVE RStrip(_)
RStrip(s) ==
    IF s # <<>> /\ IsSpace(s[Len(s)]) THEN RStrip(SubSeq(s, 1, Len(s) - 1)) ELSE s

\* s.strip()
Strip(s) == RStrip(LStrip(s))

DigitChars == <<"0", "1", "2", "3", "4", "5", "6", "7", "8", "9">>

IsDigit(c) == \E i \in 1..Len(DigitChars) : DigitChars[i] = c

DigitValue(c) == (CHOOSE i \in 1..Len(DigitChars) : DigitChars[i] = c) - 1

\* value of a run of digits in which single underscores may separate digits
RECURSIVE DecimalValue(_, _)
DecimalValue(s, acc) ==
    IF s = <<>> THEN acc
    ELSE IF Head(s) = "_" THEN DecimalValue(Tail(s), acc)
    ELSE DecimalValue(Tail(s), 10 * acc + DigitValue(Head(s)))

\* the digits part of an integer literal: digits, single underscores between them
IsDigits(s) ==
    /\ s # <<>>
    /\ IsDigit(s[1]) /\ IsDigit(s[Len(s)])
    /\ \A i \in 1..Len(s) : IsDigit(s[i]) \/ s[i] = "_"
    /\ \A i \in 1..(Len(s) - 1) : ~(s[i] = "_" /\ s[i + 1] = "_")

\* an integer literal without its sign; ok is FALSE where int raises ValueError
IntLiteral(negative, body) ==
    IF IsDigits(body)
    THEN [ok |-> TRUE,
          n |-> IF negative THEN 0 - DecimalValue(body, 0) ELSE DecimalValue(body, 0)]
    ELSE [ok |-> FALSE, n |-> 0]

\* an integer literal: an optional sign, then digits
SignedLiteral(t) ==
    IF t # <<>> /\ t[1] \in {"+", "-"}
    THEN IntLiteral(t[1] = "-", Tail(t))
    ELSE IntLiteral(FALSE, t)

\* int(s): surrounding whitespace is dropped
ParseInt(s) == SignedLiteral(Strip(s))

\* node.text.strip() if node.text else ""
TextOrEmpty(node) == IF Truthy(node.text) THEN Strip(node.text.s) ELSE <<>>

\* node.text and node.text.strip()
HasText(node) == Truthy(node.text) /\ Strip(node.text.s) # <<>>

\* EQ_ELEMENT_CLASSES.get(tag); the other registered tags name classes without
\* a children list, as Button does
NoClass == "None"

ClassOf(tag) ==
    CASE tag = "Screen" -> "Window"
      [] tag = "Button" -> "Button"
      [] tag = "Page" -> "Page"
      [] tag = "TabBox" -> "TabBox"
      [] OTHER -> NoClass

\* tag.lower() on the tags of the documents
Lower(tag) ==
    CASE tag = "FONT" -> "font"
      [] tag = "Font" -> "font"
      [] tag = "Item" -> "item"
      [] tag = "FooBar" -> "foobar"
      [] OTHER -> tag

\* the scalar attributes every element class has (EQScreenPiece.__init__),
\* and those among them whose default is an int
ScalarFields == {"screen_id", "item", "text", "font"}
IntFields == {"font"}

\* hasattr(eq_object, name), for the names that occur in the documents
HasField(e, name) == name \in ScalarFields

\* isinstance(eq_object.location, EQPoint), isinstance(eq_object.text_color, EQRGB)
IsPoint(v) == DOMAIN v = {"x", "y"}
IsRGB(v) == DOMAIN v = {"r", "g", "b", "alpha"}

\* the sub-fields of the composites, in the order the code reads the attributes
PointFields == <<[tag |-> "X", f |-> "x"], [tag |-> "Y", f |-> "y"]>>
RGBFields == <<[tag |-> "R", f |-> "r"], [tag |-> "G", f |-> "g"],
               [tag |-> "B", f |-> "b"], [tag |-> "Alpha", f |-> "alpha"]>>

(***************************************************************************)
(* parse_element_properties.  The result of a step is the object (or the   *)
(* heap) it leaves and the exception it raised, "none" or "ValueError":    *)
(* int() outside a try statement lets ValueError leave the function.       *)
(***************************************************************************)
\* setattr(eq_object, name, int(value)) where int is not guarded: n is the
\* outcome of int(value)
SetInt(e, name, n) ==
    IF n.ok THEN [e |-> [e EXCEPT ![name] = n.n], raised |-> "none"]
    ELSE [e |-> e, raised |-> "ValueError"]

\* the same inside try/except ValueError: a failed conversion changes nothing
SetIntOrKeep(e, name, n) == IF n.ok THEN [e EXCEPT ![name] = n.n] ELSE e

\* ApplyName without the test that no ID was given before
ApplyName_Unconditional(e, value) ==
    LET e1 == [e EXCEPT !.screen_id = PyStr(value)]
    IN  IF e1.item = PyNone THEN [e1 EXCEPT !.item = PyStr(value)] ELSE e1

\* the name attribute (lines 85-90)
ApplyName(e, value) ==
    LET e1 == IF e.screen_id = PyNone THEN [e EXCEPT !.screen_id = PyStr(value)] ELSE e
    IN  IF e1.item = PyNone THEN [e1 EXCEPT !.item = PyStr(value)] ELSE e1

\* the attribute loop body (lines 83-101)
ApplyAttribute(e, a) ==
    IF a.k = "ID"
    THEN [e |-> [e EXCEPT !.screen_id = PyStr(a.v)], raised |-> "none"]
    ELSE IF a.k = "name"
    THEN [e |-> ApplyName(e, a.v), raised |-> "none"]
    ELSE IF ~HasField(e, a.k)
    THEN [e |-> e, raised |-> "none"]
    ELSE IF a.k \in IntFields
    THEN SetInt(e, a.k, ParseInt(a.v))
    ELSE [e |-> [e EXCEPT ![a.k] = PyStr(a.v)], raised |-> "none"]

\* the attribute loop (line 82) from position i on; r is the object and the
\* exception so far
RECURSIVE ApplyAttributes(_, _, _)
ApplyAttributes(r, attrib, i) ==
    IF i > Len(attrib) \/ r.raised # "none" THEN r
    ELSE ApplyAttributes(ApplyAttribute(r.e, attrib[i]), attrib, i + 1)

\* target.f = int(value): n is the outcome of int(value)
SetSubField(val, f, n) ==
    IF n.ok THEN [v |-> [val EXCEPT ![f] = n.n], raised |-> "none"]
    ELSE [v |-> val, raised |-> "ValueError"]

\* one attribute of a composite node (lines 111-114, 153-156)
CompositeAttr(val, node, field) ==
    IF HasXmlAttr(node, field.tag)
    THEN SetSubField(val, field.f, ParseInt(XmlAttr(node, field.tag)))
    ELSE [v |-> val, raised |-> "none"]

\* the attributes of a composite node, in the order the code tests them
RECURSIVE CompositeAttrs(_, _, _, _)
CompositeAttrs(r, node, fields, i) ==
    IF i > Len(fields) \/ r.raised # "none" THEN r
    ELSE CompositeAttrs(CompositeAttr(r.v, node, fields[i]), node, fields, i + 1)

\* the sub-field a sub-node's tag names, 0 for none
SubField(fields, tag) ==
    IF \E k \in 1..Len(fields) : fields[k].tag = tag
    THEN CHOOSE k \in 1..Len(fields) : fields[k].tag = tag
    ELSE 0

\* one sub-node of a composite node (lines 117-120, 159-166)
CompositeSubNode(val, sub, fields) ==
    IF SubField(fields, sub.tag) = 0 \/ sub.text = PyNone
    THEN [v |-> val, raised |-> "none"]
    ELSE SetSubField(val, fields[SubField(fields, sub.tag)].f, ParseInt(Strip(sub.text.s)))

\* the sub-nodes of a composite node, in document order
RECURSIVE CompositeSubNodes(_, _, _, _)
CompositeSubNodes(r, subs, fields, i) ==
    IF i > Len(subs) \/ r.raised # "none" THEN r
    ELSE CompositeSubNodes(CompositeSubNode(r.v, subs[i], fields), subs, fields, i + 1)

\* ApplyComposite applying the sub-nodes first and the attributes after them
ApplyComposite_AttrsLast(val, node, fields) ==
    CompositeAttrs(
        CompositeSubNodes([v |-> val, raised |-> "none"], node.children, fields, 1),
        node, fields, 1)

\* a composite node applied to a composite value: attributes, then sub-nodes
ApplyComposite(val, node, fields) ==
    CompositeSubNodes(
        CompositeAttrs([v |-> val, raised |-> "none"], node, fields, 1),
        node.children, fields, 1)

\* the Font branch (lines 196-201): a failed conversion is caught
ApplyFont(e, node) ==
    IF node.text = PyNone THEN e
    ELSE SetIntOrKeep(e, "font", ParseInt(Strip(node.text.s)))

\* the last branch (lines 250-264): a child tag that names an attribute
ApplyScalar(e, node) ==
    IF ~HasText(node) \/ ~HasField(e, Lower(node.tag)) THEN e
    ELSE IF Lower(node.tag) \in IntFields
    THEN SetIntOrKeep(e, Lower(node.tag), ParseInt(Strip(node.text.s)))
    ELSE [e EXCEPT ![Lower(node.tag)] = PyStr(Strip(node.text.s))]

\* eq_class(): a new object at the end of the heap
Construct(h, cls) == Append(h, NewElement(cls, PyNone, <<>>))

\* the Pieces branch (lines 206-228); nested is the state the loop over the
\* node's nested elements leaves
ApplyPieces(st, o, node, nested) ==
    IF ~st.h[o].raw_pieces_references.has THEN st
    ELSE IF HasText(node)
    THEN [st EXCEPT !.h[o].raw_pieces_references.v = Append(@, Strip(node.text.s))]
    ELSE nested

\* the Pages branch (lines 229-246)
ApplyPages(st, o, node, nested) ==
    IF ~st.h[o].raw_pages_references.has THEN st
    ELSE IF HasText(node)
    THEN [st EXCEPT !.h[o].raw_pages_references.v = Append(@, Strip(node.text.s))]
    ELSE nested

\* the heap after a composite field of the object o was written
WithComposite(st, o, field, r) ==
    [h |-> [st.h EXCEPT ![o][field] = r.v], raised |-> r.raised]

\* one iteration of the loop over the child nodes (lines 104-264);
\* nested_pieces and nested_pages are the states the loops over the node's
\* nested elements leave when they append to pieces or to pages
ApplyChild(st, o, node, nested_pieces, nested_pages) ==
    CASE node.tag = "Location" ->
            IF ~IsPoint(st.h[o].location) THEN st
            ELSE WithComposite(st, o, "location",
                               ApplyComposite(st.h[o].location, node, PointFields))
      [] node.tag = "TextColor" ->
            IF ~IsRGB(st.h[o].text_color) THEN st
            ELSE WithComposite(st, o, "text_color",
                               ApplyComposite(st.h[o].text_color, node, RGBFields))
      [] node.tag = "Text" ->
            [st EXCEPT !.h[o].text = PyStr(TextOrEmpty(node))]
      [] node.tag = "ScreenID" ->
            [st EXCEPT !.h[o].screen_id = PyStr(TextOrEmpty(node))]
      [] node.tag = "Font" ->
            [st EXCEPT !.h[o] = ApplyFont(st.h[o], node)]
      [] node.tag = "Pieces" -> ApplyPieces(st, o, node, nested_pieces)
      [] node.tag = "Pages" -> ApplyPages(st, o, node, nested_pages)
      [] OTHER ->
            [st EXCEPT !.h[o] = ApplyScalar(st.h[o], node)]

\* the state after the attributes of the object o were read
AfterAttributes(st, o, a) == [h |-> [st.h EXCEPT ![o] = a.e], raised |-> a.raised]

\* the state with a newly constructed object of the class
Constructed(st, cls) == [h |-> Construct(st.h, cls), raised |-> "none"]

\* eq_object.pieces.append(piece_obj), reached when deserializing the nested
\* element raised nothing
AppendNested(st1, o, list, piece_obj) ==
    IF st1.raised # "none" THEN st1
    ELSE [st1 EXCEPT !.h[o][list].v = Append(@, ObjItem(piece_obj))]

\* parse_element_properties with its loops, which call it again for nested
\* elements.  part names the piece of code that runs on the object o:
\*   "element"  the whole function on the node nodes[1];
\*   "children" the loop over the child nodes (line 104) from position i on;
\*   "pieces", "pages"  the loop over the elements nested in a Pieces or Pages
\*              node (lines 218-226, 236-244) from position i on: each
\*              recognized one is constructed, deserialized and appended.
RECURSIVE ParseElementProperties(_, _, _, _, _)
ParseElementProperties(part, st, o, nodes, i) ==
    IF part = "element"
    THEN ParseElementProperties("children",
             AfterAttributes(st, o,
                 ApplyAttributes([e |-> st.h[o], raised |-> "none"], nodes[1].attrib, 1)),
             o, nodes[1].children, 1)
    ELSE IF i > Len(nodes) \/ st.raised # "none" THEN st
    ELSE IF part = "children"
    THEN ParseElementProperties("children",
             ApplyChild(st, o, nodes[i],
                        ParseElementProperties("pieces", st, o, nodes[i].children, 1),
                        ParseElementProperties("pages", st, o, nodes[i].children, 1)),
             o, nodes, i + 1)
    ELSE IF ClassOf(nodes[i].tag) = NoClass
    THEN ParseElementProperties(part, st, o, nodes, i + 1)
    ELSE ParseElementProperties(part,
             AppendNested(
                 ParseElementProperties("element", Constructed(st, ClassOf(nodes[i].tag)),
                                        Len(st.h) + 1, <<nodes[i]>>, 1),
                 o, part, Len(st.h) + 1),
             o, nodes, i + 1)

\* parsed_elements.append(eq_object), reached when deserializing the element
\* raised nothing
AppendParsed(parsed, st1, eq_object) ==
    [h |-> st1.h, raised |-> st1.raised,
     parsed |-> IF st1.raised = "none" THEN Append(parsed, eq_object) ELSE parsed]

\* the loop over the children of the <XML> root (lines 41-50) from position i
\* on; st.parsed is the list of the elements appended so far
RECURSIVE ParseTopLevel(_, _, _)
ParseTopLevel(st, children, i) ==
    IF i > Len(children) \/ st.raised # "none" THEN st
    ELSE IF ClassOf(children[i].tag) = NoClass
    THEN ParseTopLevel(st, children, i + 1)
    ELSE ParseTopLevel(
             AppendParsed(st.parsed,
                 ParseElementProperties("element", Constructed(st, ClassOf(children[i].tag)),
                                        Len(st.h) + 1, <<children[i]>>, 1),
                 Len(st.h) + 1),
             children, i + 1)

\* the nodes parse_eq_ui_xml deserializes: the children of an <XML> root
\* (lines 39-41), a root that is itself a registered element (lines 51-56),
\* nothing under any other root (line 58) or when no tree was read
TopLevelNodes(doc) ==
    IF doc.status # "ok" THEN <<>>
    ELSE IF doc.root.tag = "XML" THEN doc.root.children
    ELSE IF ClassOf(doc.root.tag) # NoClass THEN <<doc.root>>
    ELSE <<>>

\* a Python list as a returned value
PyList(v) == [t |-> "list", v |-> v]

\* ReturnValue returning None in place of an empty list
ReturnValue_NoneWhenEmpty(doc, st) ==
    IF doc.status # "ok" \/ st.raised # "none" \/ st.parsed = <<>>
    THEN [h |-> <<>>, ret |-> [t |-> "None", v |-> <<>>]]
    ELSE [h |-> st.h, ret |-> PyList(st.parsed)]

\* what parse_eq_ui_xml returns: the list, or [] from an except clause
\* (lines 63-73), which drops the objects built until then
ReturnValue(doc, st) ==
    IF doc.status # "ok" \/ st.raised # "none"
    THEN [h |-> <<>>, ret |-> PyList(<<>>)]
    ELSE [h |-> st.h, ret |-> PyList(st.parsed)]

\* parse_eq_ui_xml(xml_filepath): the heap and the returned value
ParseEqUiXml(doc) ==
    ReturnValue(doc,
        ParseTopLevel([h |-> <<>>, raised |-> "none", parsed |-> <<>>],
                      TopLevelNodes(doc), 1))

(***************************************************************************)
(* XML documents.  A document is a file that cannot be opened ("missing"), *)
(* one that is not well-formed XML ("malformed"), or a parsed tree.        *)
(***************************************************************************)
El(tag, attrib, children) == Node(tag, attrib, PyNone, children)
Leaf(tag, text) == Node(tag, <<>>, text, <<>>)
Wrapper(children) == Node("XML", <<>>, PyNone, children)
Doc(root) == [status |-> "ok", root |-> root]
Unreadable(status) == [status |-> status, root |-> Wrapper(<<>>)]

T_7 == <<"7">>
T_12 == <<"1", "2">>
T_Pad8 == <<" ", "8", " ">>
T_x == <<"x">>
T_A == <<"A">>
T_B == <<"B">>
T_PadC == <<" ", "C", " ">>
T_D == <<"D">>
T_PadInventoryWindow == <<" ">> \o S_InventoryWindow \o <<" ">>

\* top-level nodes of a document of plain elements
PlainNodes ==
    {El("Screen", <<Attr("ID", S_InventoryWindow)>>, <<>>),
     El("Button", <<Attr("ID", S_IW_A)>>, <<>>),
     El("Button", <<>>, <<>>),
     El("FooBar", <<Attr("ID", S_Inventory_A)>>, <<>>)}

\* documents whose root is itself an element, recognized or not
RootDocs == {Doc(El(tag, <<Attr("ID", S_IW_A)>>, <<>>)) : tag \in {"Screen", "Button", "FooBar"}}

\* the ID and name attributes of a node, in either order
IdNameAttribs ==
    {<<>>, <<Attr("ID", T_A)>>, <<Attr("name", T_B)>>,
     <<Attr("ID", T_A), Attr("name", T_B)>>, <<Attr("name", T_B), Attr("ID", T_A)>>}

ScreenIdNodes ==
    {Leaf("ScreenID", PyNone), Leaf("ScreenID", PyStr(T_PadC)), Leaf("ScreenID", PyStr(T_D))}

\* values of the font attribute of a node
FontAttribs == {<<>>, <<Attr("font", T_7)>>, <<Attr("font", T_Pad8)>>, <<Attr("font", T_x)>>}

\* child nodes that set numeric fields, with texts that are numbers or not
NumberNodes ==
    {Leaf("Font", PyStr(T_12)), Leaf("Font", PyStr(T_x)),
     Leaf("font", PyStr(T_7)), Leaf("FONT", PyStr(T_x)),
     Node("Location", <<Attr("X", T_x)>>, PyNone, <<>>),
     Node("Location", <<>>, PyNone, <<Leaf("X", PyStr(T_x))>>),
     Node("Location", <<Attr("X", T_7)>>, PyNone, <<Leaf("Y", PyStr(T_12))>>),
     Leaf("ScreenID", PyStr(T_D))}

\* attributes and sub-nodes of a composite node, all numbers
PointAttribs == {<<>>, <<Attr("X", T_7)>>, <<Attr("Y", T_12)>>, <<Attr("X", T_7), Attr("Y", T_12)>>}
PointSubNodes ==
    {Leaf("X", PyStr(T_Pad8)), Leaf("Y", PyStr(<<"5">>)), Leaf("X", PyNone), Leaf("Z", PyStr(<<"9">>))}
RGBAttribs == {<<>>, <<Attr("R", T_7)>>, <<Attr("Alpha", T_12)>>, <<Attr("Alpha", T_12), Attr("R", T_7)>>}
RGBSubNodes == {Leaf("R", PyStr(T_Pad8)), Leaf("Alpha", PyStr(<<"5">>)), Leaf("G", PyNone)}

\* Pieces nodes: a reference as text, or a nested element
PiecesNodes ==
    {Leaf("Pieces", PyStr(S_IW_A)),
     Leaf("Pieces", PyStr(T_PadInventoryWindow)),
     Leaf("Pieces", PyStr(<<" ">>)),
     Node("Pieces", <<>>, PyNone, <<El("Button", <<Attr("ID", S_Inventory_A)>>, <<>>)>>)}

ContainerTags == {"Screen", "Page"}
ContainerIds == {S_InventoryWindow, S_IW_A}

ParseStart ==
    /\ objs = <<>>
    /\ parsed_elements = <<>>
    /\ windows_by_id = <<>>
    /\ all_elements_by_id = <<>>
    /\ unassigned_elements = <<>>
    /\ pc = "parse"
    /\ raised = "none"
    /\ parse_result = NoResult
    /\ run = 1
    /\ first_run = NoRun

\* documents of elements with attributes and scalar or composite child nodes
ParseInit ==
    /\ ParseStart
    /\ \/ \E status \in {"missing", "malformed"} : document = Unreadable(status)
       \/ document \in RootDocs
       \/ \E k \in 0..MaxTopNodes : \E top \in [1..k -> PlainNodes] :
              document = Doc(Wrapper(top))
       \/ \E attrib \in IdNameAttribs :
          \E k \in 0..MaxScreenIdNodes : \E ids \in [1..k -> ScreenIdNodes] :
              document = Doc(Wrapper(<<El("Button", attrib, ids)>>))
       \/ \E attrib \in FontAttribs :
          \E k \in 0..MaxNumberNodes : \E nodes \in [1..k -> NumberNodes] :
              document = Doc(Wrapper(<<El("Button", attrib, nodes),
                                       El("Button", <<Attr("ID", S_IW_A)>>, <<>>)>>))
       \/ \E attrib \in PointAttribs :
          \E k \in 0..MaxSubNodes : \E subs \in [1..k -> PointSubNodes] :
              document = Doc(Wrapper(<<El("Button", <<>>,
                                          <<Node("Location", attrib, PyNone, subs)>>)>>))
       \/ \E attrib \in RGBAttribs :
          \E k \in 0..MaxSubNodes : \E subs \in [1..k -> RGBSubNodes] :
              document = Doc(Wrapper(<<El("Button", <<>>,
                                          <<Node("TextColor", attrib, PyNone, subs)>>)>>))

\* a container node with its Pieces nodes
ContainerNode(tag, id, pieces) == El(tag, <<Attr("ID", id)>>, pieces)

\* documents of containers with Pieces nodes
PiecesInit ==
    /\ ParseStart
    /\ \E n \in 1..MaxContainerNodes :
       \E tag \in [1..n -> ContainerTags] :
       \E id \in [1..n -> ContainerIds] :
       \E k \in [1..n -> 0..MaxPiecesNodes] :
       \E pieces \in [1..SumTo(k, n) -> PiecesNodes] :
           document = Doc(Wrapper(
               [i \in 1..n |->
                   ContainerNode(tag[i], id[i],
                       SubSeq(pieces, SumTo(k, i - 1) + 1, SumTo(k, i)))]))

\* the script: parse_eq_ui_xml, whose result goes to assemble_ui_hierarchy
ParseXml ==
    /\ pc = "parse"
    /\ \E r \in {ParseEqUiXml(document)} :
           /\ objs' = r.h
           /\ parse_result' = r.ret
           /\ parsed_elements' = r.ret.v
    /\ pc' = "first"
    /\ UNCHANGED <<windows_by_id, all_elements_by_id, unassigned_elements, raised,
                   document, run_vars>>

Next == FirstPass \/ SecondPass \/ ThirdPass \/ FourthPass

Spec == Init /\ [][Next]_vars

ParseNext == ParseXml \/ FirstPass \/ SecondPass \/ ThirdPass \/ FourthPass

\* documents of plain elements, deserialized and then assembled
ParseSpec == ParseInit /\ [][ParseNext]_vars

\* documents of containers with Pieces nodes, deserialized and then assembled
PiecesSpec == PiecesInit /\ [][ParseNext]_vars

\* what a call of assemble_ui_hierarchy left: the heap and the three results
Outcome ==
    [done |-> TRUE, objs |-> objs, windows_by_id |-> windows_by_id,
     all_elements_by_id |-> all_elements_by_id,
     unassigned_elements |-> unassigned_elements]

\* a second call of assemble_ui_hierarchy on the same list, after the first
\* one returned: the elements are as the first call left them, the three
\* results are new (lines 276-278)
Rerun ==
    /\ pc = "done"
    /\ run = 1
    /\ first_run' = Outcome
    /\ run' = run + 1
    /\ windows_by_id' = <<>>
    /\ all_elements_by_id' = <<>>
    /\ unassigned_elements' = <<>>
    /\ pc' = "first"
    /\ UNCHANGED <<objs, parsed_elements, raised, parse_vars>>

RerunNext == FirstPass \/ SecondPass \/ ThirdPass \/ FourthPass \/ Rerun

\* lists built by the caller, assembled twice
RerunSpec == Init /\ [][RerunNext]_vars

(***************************************************************************)
(* Vocabulary of the properties.                                           *)
(***************************************************************************)
TopLevel == {parsed_elements[i] : i \in 1..Len(parsed_elements)}

\* the second pass is over (an exception can only come from a later pass)
AfterSecond == pc \in {"third", "fourth", "done", "error"}

\* the third pass is over, or was left by an exception
AfterThird == pc \in {"fourth", "done", "error"}

\* the reference strings the first pass took out of the element's children
PendingRefs(e) ==
    IF e.raw_pieces_references.has THEN e.raw_pieces_references.v
    ELSE IF e.raw_pages_references.has THEN e.raw_pages_references.v
    ELSE <<>>

\* the element's children list
ChildList(e) ==
    IF e.pieces.has THEN e.pieces.v
    ELSE IF e.pages.has THEN e.pages.v
    ELSE <<>>

\* the objects among the element's children
ChildObjs(e) ==
    {ChildList(e)[i].obj : i \in {j \in 1..Len(ChildList(e)) : IsObjItem(ChildList(e)[j])}}

\* the object the index maps the element's ScreenID to is the element itself
Indexed(o) ==
    /\ Truthy(objs[o].screen_id)
    /\ DictGet(all_elements_by_id, objs[o].screen_id.s) = o

\* a reference that is a bare ScreenID (no "tag:" part)
Bare(r) == ~Contains(r, Colon)

InIndex(r) == r \in DictKeys(all_elements_by_id)

\* a top-level container with a ScreenID that holds pending references, all
\* bare ScreenIDs, at a point where the second pass has resolved them
ResolvedHolder(o) ==
    /\ \/ pc = "done"
       \/ AfterSecond /\ Indexed(o)
    /\ IsContainerClass(objs[o].cls)
    /\ Truthy(objs[o].screen_id)
    /\ PendingRefs(objs[o]) # <<>>
    /\ \A j \in 1..Len(PendingRefs(objs[o])) : Bare(PendingRefs(objs[o])[j])

\* the indexed elements of the references, in reference order
ElementsOf(refs) == [j \in 1..Len(refs) |-> ObjItem(DictGet(all_elements_by_id, refs[j]))]

(***************************************************************************)
(* C1.  Explicit resolution preserves reference order: once the second     *)
(* pass has run (and in particular after the function returned), a         *)
(* top-level container with a ScreenID whose pending references are bare   *)
(* ScreenIDs that are all in the index has as its children list exactly    *)
(* the indexed elements of its references, in reference order.             *)
(***************************************************************************)
C1_ExplicitOrder ==
    \A o \in TopLevel :
        ( /\ ResolvedHolder(o)
          /\ \A j \in 1..Len(PendingRefs(objs[o])) : InIndex(PendingRefs(objs[o])[j]) )
        => ChildList(objs[o]) = ElementsOf(PendingRefs(objs[o]))

\* the function returned and a container holds the elements of three
\* references to three different elements
C1_Witness ==
    /\ pc = "done"
    /\ \E o \in TopLevel :
        /\ ResolvedHolder(o)
        /\ Len(PendingRefs(objs[o])) = 3
        /\ \A j \in 1..3 : InIndex(PendingRefs(objs[o])[j])
        /\ Cardinality(ChildObjs(objs[o])) = 3
        /\ Len(ChildList(objs[o])) = 3

(***************************************************************************)
(* C2.  Assembly is never fatal: no pass of assemble_ui_hierarchy is left  *)
(* by an exception.                                                        *)
(***************************************************************************)
C2_NeverFatal == pc # "error"

(***************************************************************************)
(* C3.  Single owner: after the function returned, no element is among     *)
(* the children (pieces or pages) of two different containers.             *)
(***************************************************************************)
C3_SingleOwner ==
    pc = "done" =>
        \A c1 \in DOMAIN objs : \A c2 \in DOMAIN objs :
            c1 # c2 => ChildObjs(objs[c1]) \cap ChildObjs(objs[c2]) = {}

(***************************************************************************)
(* C4.  A dangling reference is dropped without stopping the container:    *)
(* when some of the (bare) pending references of a container are not in    *)
(* the index, its children list is exactly the indexed elements of the     *)
(* other references, in their original relative order, and nothing stands  *)
(* in for the dangling ones.                                               *)
(***************************************************************************)
C4_DanglingDropped ==
    \A o \in TopLevel :
        ( /\ ResolvedHolder(o)
          /\ \E j \in 1..Len(PendingRefs(objs[o])) : ~InIndex(PendingRefs(objs[o])[j]) )
        => ChildList(objs[o]) = ElementsOf(SelectSeq(PendingRefs(objs[o]), InIndex))

\* the function returned and a container had a dangling reference between two
\* references that resolved
C4_Witness ==
    /\ pc = "done"
    /\ \E o \in TopLevel :
        /\ ResolvedHolder(o)
        /\ Len(PendingRefs(objs[o])) = 3
        /\ InIndex(PendingRefs(objs[o])[1])
        /\ ~InIndex(PendingRefs(objs[o])[2])
        /\ InIndex(PendingRefs(objs[o])[3])
        /\ Len(ChildList(objs[o])) = 2

(***************************************************************************)
(* C5.  A reference "tag:S" and the reference "S" resolve to the same      *)
(* indexed element: once the second pass has run, a pending reference of   *)
(* an indexed container that is an indexed ScreenID S, or "Button:S" for   *)
(* an indexed ScreenID S, has put the element indexed as S among the       *)
(* container's children.                                                   *)
(***************************************************************************)
C5_TagPrefixStripped ==
    \A o \in TopLevel :
        (AfterSecond /\ Indexed(o)) =>
            \A j \in 1..Len(PendingRefs(objs[o])) :
                \A S \in DictKeys(all_elements_by_id) :
                    PendingRefs(objs[o])[j] \in {S, Tagged(S_Button, S)}
                    => DictGet(all_elements_by_id, S) \in ChildObjs(objs[o])

(***************************************************************************)
(* C6.  Heuristic fallback by derived prefix: once the third pass is over, *)
(* every indexed non-container element that no reference resolved to and   *)
(* whose ScreenID starts with the derived prefix (ScreenID without a       *)
(* trailing "Window", plus "_") of some container of the containers map is *)
(* among the children of the first such container and has it recorded as   *)
(* its parent.                                                             *)
(***************************************************************************)
DerivedPrefix(id) ==
    (IF EndsWith(id, S_Window) THEN SubSeq(id, 1, Len(id) - Len(S_Window)) ELSE id)
        \o S_Underscore

\* some pending reference of an indexed element resolved to the key
ExplicitlyReferenced(key) ==
    \E i \in 1..Len(all_elements_by_id) :
        LET refs == PendingRefs(objs[all_elements_by_id[i].v])
        IN  \E j \in 1..Len(refs) : RefId(refs[j]) = key

\* positions of the containers map whose derived prefix starts the key
PrefixMatches(key) ==
    {i \in 1..Len(windows_by_id) : StartsWith(key, DerivedPrefix(windows_by_id[i].k))}

C6_DerivedPrefixFallback ==
    AfterThird =>
        \A i \in 1..Len(all_elements_by_id) :
            LET key == all_elements_by_id[i].k
                o == all_elements_by_id[i].v
                m == PrefixMatches(key)
                first == windows_by_id[CHOOSE x \in m : \A y \in m : x <= y]
            IN  ( /\ ~IsContainerClass(objs[o].cls)
                  /\ ~ExplicitlyReferenced(key)
                  /\ m # {} )
                => /\ o \in ChildObjs(objs[first.v])
                   /\ objs[o].parent_id = PyStr(first.k)

(***************************************************************************)
(* C7.  The third pass leaves explicitly parented elements alone: an       *)
(* element whose parent the second pass recorded keeps that parent through *)
(* the third pass and is not appended to any children list by it.          *)
(***************************************************************************)
Occurrences(lst, o) == Cardinality({i \in 1..Len(lst) : lst[i] = ObjItem(o)})

C7_ExplicitParentKept ==
    [][pc = "third" =>
        \A o \in DOMAIN objs :
            Truthy(objs[o].parent_id) =>
                /\ objs'[o].parent_id = objs[o].parent_id
                /\ \A c \in DOMAIN objs :
                    Occurrences(ChildList(objs'[c]), o) = Occurrences(ChildList(objs[c]), o)
      ]_vars

\* the third pass ran to its end with an InventoryWindow present and passed
\* over an indexed non-container "IW_" element that another container had
\* taken as its child
C7_Witness ==
    /\ pc = "fourth"
    /\ DictGet(windows_by_id, S_InventoryWindow) # NoObj
    /\ \E o \in TopLevel :
        /\ Indexed(o)
        /\ ~IsContainerClass(objs[o].cls)
        /\ StartsWith(objs[o].screen_id.s, S_IW_Prefix)
        /\ Truthy(objs[o].parent_id)
        /\ objs[o].parent_id # PyStr(S_InventoryWindow)
        /\ o \notin ChildObjs(objs[DictGet(windows_by_id, S_InventoryWindow)])

(***************************************************************************)
(* C8.  The full index holds every element with a non-empty ScreenID that  *)
(* occurs in the input, inline children of top-level containers included,  *)
(* under its ScreenID.                                                     *)
(***************************************************************************)
C8_IndexCoversNested ==
    pc # "first" =>
        \A o \in DOMAIN objs :
            Truthy(objs[o].screen_id) =>
                /\ InIndex(objs[o].screen_id.s)
                /\ objs[DictGet(all_elements_by_id, objs[o].screen_id.s)].screen_id
                       = objs[o].screen_id

(***************************************************************************)
(* C9.  The containers map of a run that returned has a key for every      *)
(* top-level container-typed element with a non-empty ScreenID, whatever   *)
(* its container class, and maps to no non-container element.              *)
(***************************************************************************)
C9_ContainersMapComplete ==
    pc = "done" =>
        /\ \A o \in TopLevel :
              (IsContainerClass(objs[o].cls) /\ Truthy(objs[o].screen_id))
              => objs[o].screen_id.s \in DictKeys(windows_by_id)
        /\ \A i \in 1..Len(windows_by_id) : IsContainerClass(objs[windows_by_id[i].v].cls)

(***************************************************************************)
(* C10.  Orphan detection is exact: when assemble_ui_hierarchy is over,    *)
(* its orphan list is exactly the top-level elements that have no recorded *)
(* parent and are not containers, each once and in top-level order.        *)
(***************************************************************************)
IsOrphan(o) == ~Truthy(objs[o].parent_id) /\ ~IsContainerClass(objs[o].cls)

C10_OrphansExact ==
    pc \in {"done", "error"} => unassigned_elements = SelectSeq(parsed_elements, IsOrphan)

(***************************************************************************)
(* C11.  Every container's pending references are consumed by assembly:    *)
(* after assemble_ui_hierarchy returned, the children list of every        *)
(* container of the input (top-level or an inline child, with or without a *)
(* ScreenID) holds only elements, no raw reference string, and every       *)
(* reference the container held that names an indexed ScreenID has put the *)
(* indexed element among its children.                                     *)
(***************************************************************************)
\* the reference strings still standing in the element's children list
RawStringsLeft(e) ==
    {i \in 1..Len(ChildList(e)) : IsRefItem(ChildList(e)[i])}

C11_ReferencesConsumed ==
    pc = "done" =>
        \A o \in DOMAIN objs :
            IsContainerClass(objs[o].cls) =>
                /\ RawStringsLeft(objs[o]) = {}
                /\ \A j \in 1..Len(PendingRefs(objs[o])) :
                      LET r == PendingRefs(objs[o])[j]
                      IN  (Bare(r) /\ InIndex(r))
                          => DictGet(all_elements_by_id, r) \in ChildObjs(objs[o])

(***************************************************************************)
(* Vocabulary of the properties of the deserializer.                       *)
(***************************************************************************)
\* the top-level nodes of the document
TopNodes == TopLevelNodes(document)

\* the deserializer returned a list (the document has been parsed)
Parsed == pc # "parse"

\* the stripped texts of the Pieces child nodes of a node, in document order
PiecesTexts(node) ==
    LET texts == SelectSeq(node.children, LAMBDA c : c.tag = "Pieces" /\ HasText(c))
    IN  [j \in 1..Len(texts) |-> Strip(texts[j].text.s)]

\* the reference strings the element holds when the deserializer returns it
RecordedRefs(e) ==
    IF PendingRefs(e) # <<>> THEN PendingRefs(e)
    ELSE LET strs == SelectSeq(ChildList(e), IsRefItem)
         IN  [j \in 1..Len(strs) |-> strs[j].s]

(***************************************************************************)
(* C12.  Deserializing a Window (Screen) node records its references: the  *)
(* element returned for a top-level Screen node holds, as its pending      *)
(* references, exactly the stripped texts of the node's Pieces child nodes *)
(* with non-empty text, in document order, and these are the references    *)
(* the second pass of the assembler has read once it is over.              *)
(***************************************************************************)
C12_WindowReferencesRecorded ==
    (Parsed /\ Len(parsed_elements) = Len(TopNodes)) =>
        \A i \in 1..Len(TopNodes) :
            TopNodes[i].tag = "Screen" =>
                /\ pc = "first" =>
                      RecordedRefs(objs[parsed_elements[i]]) = PiecesTexts(TopNodes[i])
                /\ AfterSecond =>
                      PendingRefs(objs[parsed_elements[i]]) = PiecesTexts(TopNodes[i])

\* the element as the deserializer returned it, before assembly
AsParsed(o) == ParseEqUiXml(document).h[o]

(***************************************************************************)
(* C13.  Inline children take precedence over pending references: when    *)
(* the deserializer left a container with both inline children and raw     *)
(* reference strings, the container's children list after assembly is      *)
(* exactly its inline children; no pending reference was appended to it.   *)
(***************************************************************************)
C13_InlinePrecedence ==
    pc = "done" =>
        \A o \in TopLevel :
            (ChildObjs(AsParsed(o)) # {} /\ PendingRefs(AsParsed(o)) # <<>>)
            => ChildList(objs[o]) = ChildList(AsParsed(o))

\* the document was read and its root is the <XML> wrapper
WrapperDocument == document.status = "ok" /\ document.root.tag = "XML"

\* the recognized top-level nodes, in document order
Recognized == SelectSeq(TopNodes, LAMBDA c : ClassOf(c.tag) # NoClass)

(***************************************************************************)
(* C14.  An unrecognized top-level tag is skipped and nothing else is      *)
(* lost: for a document whose root is the wrapper, parse_eq_ui_xml returns *)
(* a list with exactly one element per recognized child of the root, in    *)
(* document order (the i-th element is of the class of the i-th recognized *)
(* child), and none for an unrecognized child.                             *)
(***************************************************************************)
C14_OnePerRecognizedChild ==
    (Parsed /\ WrapperDocument) =>
        /\ parse_result.t = "list"
        /\ Len(parse_result.v) = Len(Recognized)
        /\ \A i \in 1..Len(Recognized) :
              i <= Len(parse_result.v) =>
                  objs[parse_result.v[i]].cls = ClassOf(Recognized[i].tag)

\* readable, well-formed documents without any element to return
EmptyDocuments == {Doc(Wrapper(<<>>)), Doc(Wrapper(<<El("FooBar", <<>>, <<>>)>>))}

(***************************************************************************)
(* C15.  Fatal and non-fatal outcomes are distinguishable by return shape: *)
(* the value parse_eq_ui_xml returns for a document that cannot be read or *)
(* cannot be parsed differs from the values it returns for readable,       *)
(* well-formed documents, among them the document with zero top-level      *)
(* elements and the one with only an unrecognized tag.                     *)
(***************************************************************************)
C15_FatalDistinguishable ==
    (Parsed /\ document.status # "ok") =>
        \A d \in EmptyDocuments : parse_result # ParseEqUiXml(d).ret

\* the values of the attributes named k of a node, in document order
AttribValues(node, k) ==
    LET as == SelectSeq(node.attrib, LAMBDA a : a.k = k)
    IN  [j \in 1..Len(as) |-> as[j].v]

\* the texts of the child nodes of a node whose tag is in tags, in document order
ChildTexts(node, tags) ==
    LET cs == SelectSeq(node.children, LAMBDA c : c.tag \in tags /\ c.text # PyNone)
    IN  [j \in 1..Len(cs) |-> cs[j].text.s]

\* the texts written to a sub-field by the composite child nodes of a node named
\* composite, in the order the code reads them: per composite node, its
\* attribute, then its sub-nodes
RECURSIVE SubFieldWrites(_, _, _, _)
SubFieldWrites(node, composite, tag, i) ==
    IF i > Len(node.children) THEN <<>>
    ELSE (IF node.children[i].tag = composite
          THEN AttribValues(node.children[i], tag) \o ChildTexts(node.children[i], {tag})
          ELSE <<>>)
         \o SubFieldWrites(node, composite, tag, i + 1)

\* the texts written to the font field of the element of a node
FontWrites(node) == AttribValues(node, "font") \o ChildTexts(node, {"Font", "font", "FONT"})

\* the value of a field after the writes from the i-th on, where a text that
\* is not a number leaves the field as it was
RECURSIVE LastNumber(_, _, _)
LastNumber(writes, previous, i) ==
    IF i > Len(writes) THEN previous
    ELSE LastNumber(writes,
                    IF ParseInt(writes[i]).ok THEN ParseInt(writes[i]).n ELSE previous,
                    i + 1)

\* the ScreenID child nodes of a node
ScreenIdChildren(node) == SelectSeq(node.children, LAMBDA c : c.tag = "ScreenID")

(***************************************************************************)
(* C16.  A numeric coercion failure is recoverable: for a document whose   *)
(* root is the wrapper, whatever the texts bound to the integer fields     *)
(* (the font attribute, a Font/font child node, the X attribute or X       *)
(* sub-node of a Location node), parse_eq_ui_xml returns one element per   *)
(* recognized child; the font and the Location x of each element are the   *)
(* last of the texts written to them that is a number, or the default if   *)
(* none is, and a ScreenID child node of the element is still applied.     *)
(***************************************************************************)
C16_CoercionFailureRecoverable ==
    (Parsed /\ WrapperDocument) =>
        /\ Len(parse_result.v) = Len(Recognized)
        /\ \A i \in 1..Len(Recognized) :
              LET e == objs[parse_result.v[i]]
                  node == Recognized[i]
                  ids == ScreenIdChildren(node)
              IN  /\ e.font = LastNumber(FontWrites(node), DefaultFont, 1)
                  /\ e.location.x =
                         LastNumber(SubFieldWrites(node, "Location", "X", 1), DefaultPoint.x, 1)
                  /\ ids # <<>> => e.screen_id = PyStr(TextOrEmpty(ids[Len(ids)]))

\* the value the composite nodes named composite of a node leave in a sub-field
\* that held previous: the last text written to it
SubFieldValue(node, composite, tag, previous) ==
    LastNumber(SubFieldWrites(node, composite, tag, 1), previous, 1)

(***************************************************************************)
(* C17.  Composite fields apply attributes first and sub-nodes second, the *)
(* last write wins: in every element parse_eq_ui_xml returns, a sub-field  *)
(* of location and of text_color holds the text of the last matching       *)
(* sub-node of its composite node if there is one, otherwise the value of  *)
(* the matching attribute of the composite node if there is one, otherwise *)
(* the value it had before (the default of the class).                     *)
(***************************************************************************)
C17_CompositePrecedence ==
    (Parsed /\ WrapperDocument /\ Len(parse_result.v) = Len(Recognized)) =>
        \A i \in 1..Len(Recognized) :
            LET e == objs[parse_result.v[i]]
                node == Recognized[i]
            IN  /\ \A j \in 1..Len(PointFields) :
                      e.location[PointFields[j].f] =
                          SubFieldValue(node, "Location", PointFields[j].tag,
                                        DefaultPoint[PointFields[j].f])
                /\ \A j \in 1..Len(RGBFields) :
                      e.text_color[RGBFields[j].f] =
                          SubFieldValue(node, "TextColor", RGBFields[j].tag,
                                        DefaultTextColor[RGBFields[j].f])

\* an element was returned whose Location node sets X by an attribute and by
\* a sub-node, and Y by an attribute alone: x is the sub-node's, y the attribute's
C17_Witness ==
    /\ pc = "first"
    /\ WrapperDocument
    /\ Len(parse_result.v) = 1
    /\ \E c \in {TopNodes[1].children[j] : j \in 1..Len(TopNodes[1].children)} :
          /\ c.tag = "Location"
          /\ AttribValues(c, "X") = <<T_7>>
          /\ AttribValues(c, "Y") = <<T_12>>
          /\ ChildTexts(c, {"X"}) = <<T_Pad8>>
          /\ ChildTexts(c, {"Y"}) = <<>>
    /\ objs[parse_result.v[1]].location = [x |-> 8, y |-> 12]

\* the ScreenID the attributes and ScreenID child nodes of a node call for
ExpectedScreenId(node) ==
    LET ids == ScreenIdChildren(node)
    IN  IF ids # <<>> THEN PyStr(TextOrEmpty(ids[Len(ids)]))
        ELSE IF HasXmlAttr(node, "ID") THEN PyStr(XmlAttr(node, "ID"))
        ELSE IF HasXmlAttr(node, "name") THEN PyStr(XmlAttr(node, "name"))
        ELSE PyNone

(***************************************************************************)
(* C18.  ScreenID precedence: in every element parse_eq_ui_xml returns,    *)
(* screen_id is the (stripped) text of the last ScreenID child node if the *)
(* node has one; otherwise the value of the ID attribute if the node has   *)
(* one, whether it stands before or after the name attribute; otherwise    *)
(* the value of the name attribute; otherwise None.                        *)
(***************************************************************************)
C18_ScreenIdPrecedence ==
    (Parsed /\ WrapperDocument /\ Len(parse_result.v) = Len(Recognized)) =>
        \A i \in 1..Len(Recognized) :
            objs[parse_result.v[i]].screen_id = ExpectedScreenId(Recognized[i])

\* an element was returned for a node with the ID attribute before the name
\* attribute and no ScreenID child node: its ScreenID is the ID
C18_Witness ==
    /\ pc = "first"
    /\ WrapperDocument
    /\ Len(parse_result.v) = 1
    /\ TopNodes[1].attrib = <<Attr("ID", T_A), Attr("name", T_B)>>
    /\ ScreenIdChildren(TopNodes[1]) = <<>>
    /\ objs[parse_result.v[1]].screen_id = PyStr(T_A)

\* the document with zero top-level elements
EmptyDocument == Doc(Wrapper(<<>>))

(***************************************************************************)
(* C19.  An empty document is not an error: for a wrapper root with zero   *)
(* top-level elements parse_eq_ui_xml returns an empty list, and           *)
(* assemble_ui_hierarchy applied to that list raises nothing and returns   *)
(* an empty containers map, an empty full index and an empty orphan list.  *)
(***************************************************************************)
C19_EmptyDocument ==
    document = EmptyDocument =>
        /\ Parsed => parse_result = PyList(<<>>) /\ parsed_elements = <<>>
        /\ pc # "error"
        /\ pc = "done" =>
              /\ windows_by_id = <<>>
              /\ all_elements_by_id = <<>>
              /\ unassigned_elements = <<>>

\* assemble_ui_hierarchy returned for the empty document
C19_Witness ==
    /\ document = EmptyDocument
    /\ pc = "done"
    /\ parse_result = PyList(<<>>)
    /\ windows_by_id = <<>> /\ all_elements_by_id = <<>> /\ unassigned_elements = <<>>

(***************************************************************************)
(* C20.  assemble_ui_hierarchy is idempotent on the hierarchy: when a      *)
(* second call on the same list (already assembled by a first call) has    *)
(* returned, the children list of every container and the recorded parent  *)
(* of every element are those the first call left, and the three results   *)
(* equal those of the first call; no child was appended a second time.     *)
(***************************************************************************)
C20_SecondRunChangesNothing ==
    (pc = "done" /\ run = 2) =>
        /\ \A o \in DOMAIN objs :
              /\ ChildList(objs[o]) = ChildList(first_run.objs[o])
              /\ objs[o].parent_id = first_run.objs[o].parent_id
        /\ windows_by_id = first_run.windows_by_id
        /\ all_elements_by_id = first_run.all_elements_by_id
        /\ unassigned_elements = first_run.unassigned_elements

====
